---- MODULE Spec2Model ----
(***************************************************************************)
(* Scan & Archive API (src/main.py): the document and file-blob            *)
(* collections behind the create / upload / download / update / delete     *)
(* routes, with the one suspension point of the upload handler             *)
(* (await file.read()) and process crashes between database writes.        *)
(*                                                                         *)
(* Python values: Optional[T] is a sequence of length <= 1 (None is <<>>,  *)
(* a present value x is <<x>>); identifiers, content types and payloads    *)
(* are sequences of characters / bytes; titles, tags and notes are opaque  *)
(* strings.  An ObjectId is the number its hex string denotes.            *)
(***************************************************************************)
EXTENDS Integers, Sequences, FiniteSets, TLC

VARIABLES db, docs, blobs, nextOid, uploads, last, deleted, uploaded

vars == <<db, docs, blobs, nextOid, uploads, last, deleted, uploaded>>

\* Number of identifiers the database generates in a run.
MaxOid == 3
\* Number of upload requests suspended at `await file.read()` at a time.
MaxInFlight == 1

None == <<>>
Some(x) == <<x>>

NoRecords == [x \in {} |-> None]

\* ------------------------------------------------------------ identifiers

\* An ObjectId is 12 bytes, written as hex: it is modelled by the number its
\* hex string denotes.
OidLen == 12 * 2

HexDigits == <<"0", "1", "2", "3", "4", "5", "6", "7", "8", "9", "a", "b", "c", "d", "e", "f">>
HexUpper == <<"0", "1", "2", "3", "4", "5", "6", "7", "8", "9", "A", "B", "C", "D", "E", "F">>

IsHex(c) == \E v \in 1..16 : c = HexDigits[v] \/ c = HexUpper[v]
HexValue(c) == (CHOOSE v \in 1..16 : c = HexDigits[v] \/ c = HexUpper[v]) - 1

RECURSIVE FromHex(_)
FromHex(s) ==
  IF s = <<>> THEN 0
  ELSE FromHex(SubSeq(s, 1, Len(s) - 1)) * 16 + HexValue(s[Len(s)])

\* str(oid): 24 lower-case hex digits.
RECURSIVE ToHex(_, _)
ToHex(v, k) == IF k = 0 THEN <<>> ELSE ToHex(v \div 16, k - 1) \o <<HexDigits[(v % 16) + 1]>>

Str(oid) == ToHex(oid, OidLen)

\* ObjectId(doc_id): a 24-character hex string in either case parses to
\* Some(oid); anything else raises InvalidId, modelled as None.
ObjectId(s) ==
  IF Len(s) = OidLen /\ \A i \in 1..Len(s) : IsHex(s[i])
  THEN Some(FromHex(s))
  ELSE None

\* The n-th identifier the database generates (never reused).
NewOid(n) == 9 + n

UpperCase(s) == [i \in 1..Len(s) |->
                   IF \E v \in 1..16 : s[i] = HexDigits[v]
                   THEN HexUpper[CHOOSE v \in 1..16 : s[i] = HexDigits[v]]
                   ELSE s[i]]

\* Path parameters tried: every identifier the database generates (each
\* matches no document until it is a document's, and again once the document
\* is deleted), an upper-case spelling, and malformed ones (too short, non-hex).
DocIdInputs ==
  {Str(NewOid(n)) : n \in 1..MaxOid}
    \cup {UpperCase(Str(NewOid(1)))}
    \cup {[i \in 1..(OidLen - 1) |-> "0"],
          [i \in 1..OidLen |-> IF i = 2 THEN "g" ELSE "0"]}

\* ObjectId and str on the identifiers of a run, tabulated.
OidOf == [s \in DocIdInputs |-> ObjectId(s)]
StrOf == [oid \in {NewOid(n) : n \in 1..MaxOid} |-> Str(oid)]

\* ------------------------------------------------------------ request inputs

\* DocumentCreate payloads (title required, tags and notes optional).
Payloads ==
  { [title |-> "Invoice #2", tags |-> Some(<<"a", "b">>), notes |-> None],
    [title |-> "Receipt", tags |-> Some(<<"x">>), notes |-> Some("n")],
    [title |-> "Receipt", tags |-> None, notes |-> None] }

TextPlain == <<"t", "e", "x", "t", "/", "p", "l", "a", "i", "n">>
ApplicationPdf == <<"a", "p", "p", "l", "i", "c", "a", "t", "i", "o", "n", "/", "p", "d", "f">>
OctetStream == <<"a", "p", "p", "l", "i", "c", "a", "t", "i", "o", "n", "/",
                 "o", "c", "t", "e", "t", "-", "s", "t", "r", "e", "a", "m">>

\* Uploaded files: content type (absent when the part carries none) and bytes
\* (the text holds a byte that is no UTF-8 and a two-byte character).
Files ==
  { [filename |-> "hello.txt", content_type |-> Some(TextPlain),
      content |-> <<104, 105, 255, 195, 169>>],
    [filename |-> "data.bin", content_type |-> Some(OctetStream), content |-> <<0, 255, 7>>],
    [filename |-> "raw", content_type |-> None, content |-> <<>>] }

\* ------------------------------------------------------------ helpers

\* `needle in haystack` on strings.
Contains(haystack, needle) ==
  \E i \in 1..(Len(haystack) - Len(needle) + 1) :
    SubSeq(haystack, i, i + Len(needle) - 1) = needle

\* Python truthiness of an Optional[str]: neither None nor "".
Truthy(o) == o # None /\ o[1] # <<>>

\* Bytes read for the preview.
PreviewCap == 1024

\* content[:n]
Slice(content, n) == SubSeq(content, 1, IF Len(content) < n THEN Len(content) ELSE n)

\* bytes.decode(errors="ignore") as UTF-8, to code points: one- and two-byte
\* sequences are decoded, every byte that starts no valid sequence is dropped.
\* (Complete for payloads without the lead bytes 224..244 of longer sequences.)
RECURSIVE Decode(_)
Decode(b) ==
  IF b = <<>> THEN <<>>
  ELSE IF b[1] < 128 THEN <<b[1]>> \o Decode(Tail(b))
  ELSE IF b[1] \in 194..223 /\ Len(b) >= 2 /\ b[2] \in 128..191
       THEN <<(b[1] - 192) * 64 + (b[2] - 128)>> \o Decode(SubSeq(b, 3, Len(b)))
  ELSE Decode(Tail(b))

\* payload.tags or []
TagsOrEmpty(tags) == IF tags = None \/ tags = Some(<<>>) THEN <<>> ELSE tags[1]

\* collection.find_one({"_id": oid})
find_one(coll, oid) == IF oid \in DOMAIN coll THEN Some(coll[oid]) ELSE None

\* update_one as it would be with upsert=True: a filter that matches nothing
\* inserts the fields as a new record.
update_one_upsert(coll, oid, fields) ==
  IF oid \in DOMAIN coll
  THEN [coll EXCEPT ![oid] = fields @@ coll[oid]]
  ELSE (oid :> (fields @@ [title |-> "", tags |-> <<>>, notes |-> None, mime_type |-> None,
                            size |-> None, text_preview |-> None, file_blob_id |-> None]))
         @@ coll

\* collection.update_one({"_id": oid}, {"$set": fields}): no upsert, so a
\* filter that matches nothing writes nothing.
update_one(coll, oid, fields) ==
  IF oid \in DOMAIN coll
  THEN [coll EXCEPT ![oid] = fields @@ coll[oid]]
  ELSE coll

\* collection.delete_one({"_id": oid})
delete_one(coll, oid) == [x \in DOMAIN coll \ {oid} |-> coll[x]]

\* create_document(collection, data): inserts the mapping under a fresh
\* identifier and returns the identifier.
create_document(coll, n, data) == (NewOid(n) :> data) @@ coll

\* The DocumentOut representation the routes return.
DocumentOut(oid, d) ==
  [id |-> StrOf[oid], title |-> d.title, tags |-> d.tags, notes |-> d.notes,
   mime_type |-> d.mime_type, size |-> d.size, text_preview |-> d.text_preview]

HTTPException(code, detail) == [status |-> code, body |-> detail]
Ok(body) == [status |-> 200, body |-> body]

\* What a handler leaves behind: the two collections, the identifier counter
\* and the response.
Result(d, b, n, r) == [docs |-> d, blobs |-> b, nextOid |-> n, resp |-> r]
Fail(code, detail) == Result(docs, blobs, nextOid, HTTPException(code, detail))

\* ------------------------------------------------------------ handlers

NotConfigured == Fail(500, "Database not configured")
\* A malformed identifier answered as a missing document.
InvalidDocIdAsNotFound == Fail(404, "Document not found")

InvalidDocId == Fail(400, "Invalid document id")

\* POST /api/documents
create_document_metadata(payload) ==
  IF db = None THEN NotConfigured
  ELSE
    LET doc == [title |-> payload.title, tags |-> TagsOrEmpty(payload.tags),
                notes |-> payload.notes, mime_type |-> None, size |-> None,
                text_preview |-> None, file_blob_id |-> None]
        inserted_id == StrOf[NewOid(nextOid)]
        docs2 == create_document(docs, nextOid, doc)
        saved == find_one(docs2, OidOf[inserted_id][1])[1]
    IN Result(docs2, blobs, nextOid + 1, Ok(DocumentOut(OidOf[inserted_id][1], saved)))

\* POST /api/documents/{doc_id}/upload, up to `await file.read()`: the
\* response that ends the request there, or None when the handler goes on.
upload_check(doc_id) ==
  IF db = None THEN Some(NotConfigured.resp)
  ELSE IF OidOf[doc_id] = None THEN Some(InvalidDocId.resp)
  ELSE IF find_one(docs, OidOf[doc_id][1]) = None
       THEN Some(HTTPException(404, "Document not found"))
  ELSE None

\* The blob record upload stores.
upload_blob(oid, file) ==
  [doc_id |-> oid, filename |-> file.filename, content_type |-> file.content_type,
   size |-> Len(file.content), content |-> file.content]

\* Whether upload derives a preview from the content.
HasPreview(content_type) ==
  Truthy(content_type)
    /\ (Contains(content_type[1], <<"t", "e", "x", "t">>) \/ content_type[1] = ApplicationPdf)

\* upload forgetting the back-reference to the new blob.
upload_fields_no_ref(file, blob_id) ==
  [mime_type |-> file.content_type, size |-> Some(Len(file.content))]

\* upload forgetting the content type of the new file.
upload_fields_no_mime(file, blob_id) ==
  [size |-> Some(Len(file.content)), file_blob_id |-> Some(blob_id)]

\* The document's fields upload sets, preview apart.
upload_fields(file, blob_id) ==
  [mime_type |-> file.content_type, size |-> Some(Len(file.content)),
   file_blob_id |-> Some(blob_id)]

\* The preview upload stores when it derives one.
upload_preview(file) == [text_preview |-> Some(Decode(Slice(file.content, PreviewCap)))]

\* upload from `content = await file.read()` to its return.  The document is
\* not looked up again before the blob is stored; indexing the result of the
\* final find_one raises when the document is gone, which the framework
\* answers with 500.
upload_store(oid, file) ==
  LET blob_id == NewOid(nextOid)
      blobs2 == create_document(blobs, nextOid, upload_blob(oid, file))
      docs2 == update_one(docs, oid, upload_fields(file, blob_id))
      docs3 == IF HasPreview(file.content_type)
               THEN update_one(docs2, oid, upload_preview(file))
               ELSE docs2
      updated == find_one(docs3, oid)
  IN Result(docs3, blobs2, nextOid + 1,
            IF updated = None
            THEN HTTPException(500, "Internal Server Error")
            ELSE Ok(DocumentOut(oid, updated[1])))

\* upload_document_file with nothing else running during its await.
upload_document_file(doc_id, file) ==
  IF upload_check(doc_id) # None
  THEN Result(docs, blobs, nextOid, upload_check(doc_id)[1])
  ELSE upload_store(OidOf[doc_id][1], file)

\* The media type download answers with.
media_type(blob) ==
  IF Truthy(blob.content_type) THEN blob.content_type[1] ELSE OctetStream

\* GET /api/documents/{doc_id}/download
download_document_file(doc_id) ==
  IF db = None THEN NotConfigured
  ELSE IF OidOf[doc_id] = None THEN InvalidDocId
  ELSE
    LET doc == find_one(docs, OidOf[doc_id][1])
    IN IF doc = None \/ doc[1].file_blob_id = None
       THEN Fail(404, "File not found for this document")
       ELSE
         LET blob == find_one(blobs, doc[1].file_blob_id[1])
         IN IF blob = None
            THEN Fail(404, "File blob missing")
            ELSE Result(docs, blobs, nextOid,
                        Ok([content |-> blob[1].content,
                            media_type |-> media_type(blob[1]),
                            filename |-> blob[1].filename]))

\* update as a partial patch: absent tags leave the stored tags alone.
update_fields_patch(payload) ==
  IF payload.tags = None
  THEN [title |-> payload.title, notes |-> payload.notes]
  ELSE [title |-> payload.title, tags |-> payload.tags[1], notes |-> payload.notes]

\* The fields update sets.
update_fields(payload) ==
  [title |-> payload.title, tags |-> TagsOrEmpty(payload.tags), notes |-> payload.notes]

\* The write of update: update_one with $set.
update_write(oid, payload) == update_one(docs, oid, update_fields(payload))

\* PUT /api/documents/{doc_id}: the write comes first, the existence check after.
update_document(doc_id, payload) ==
  IF db = None THEN NotConfigured
  ELSE IF OidOf[doc_id] = None THEN InvalidDocId
  ELSE
    LET oid == OidOf[doc_id][1]
        docs2 == update_write(oid, payload)
        d == find_one(docs2, oid)
    IN IF d = None
       THEN Result(docs2, blobs, nextOid, HTTPException(404, "Document not found"))
       ELSE Result(docs2, blobs, nextOid, Ok(DocumentOut(oid, d[1])))

\* delete_document forgetting the blob.
delete_blob_skip(d) == blobs

\* The first delete of delete_document: the blob the document refers to.
delete_blob(d) ==
  IF d.file_blob_id # None THEN delete_one(blobs, d.file_blob_id[1]) ELSE blobs

\* DELETE /api/documents/{doc_id}
delete_document(doc_id) ==
  IF db = None THEN NotConfigured
  ELSE IF OidOf[doc_id] = None THEN InvalidDocId
  ELSE
    LET oid == OidOf[doc_id][1]
        d == find_one(docs, oid)
    IN IF d = None
       THEN Fail(404, "Document not found")
       ELSE Result(delete_one(docs, oid), delete_blob(d[1]), nextOid,
                   Ok("deleted"))

\* ------------------------------------------------------------ state machine

\* `last` is the most recent outcome a client saw: the route, the path
\* parameter, and the response (status 0: the process died, no response).
\* `deleted` and `uploaded` are history: the documents a completed delete
\* removed together with an attached file (each with the blob it referred
\* to), and per document the file of its most recent successful upload since
\* the last delete request for it.
Response(op, doc_id, resp) ==
  [op |-> op, doc_id |-> doc_id, status |-> resp.status, body |-> resp.body]

Init ==
  /\ db \in {None, Some("mongo")}
  /\ docs = NoRecords
  /\ blobs = NoRecords
  /\ nextOid = 1
  /\ uploads = {}
  /\ last = [op |-> "none", doc_id |-> <<>>, status |-> 0, body |-> ""]
  /\ deleted = NoRecords
  /\ uploaded = NoRecords

Commit(op, doc_id, r) ==
  /\ docs' = r.docs
  /\ blobs' = r.blobs
  /\ nextOid' = r.nextOid
  /\ last' = Response(op, doc_id, r.resp)

Without(f, x) == [y \in DOMAIN f \ {x} |-> f[y]]

Create(payload) ==
  /\ db = None \/ nextOid <= MaxOid
  /\ Commit("create", <<>>, create_document_metadata(payload))
  /\ UNCHANGED <<db, uploads, deleted, uploaded>>

\* upload served with no other request during its await.
Upload(doc_id, file) ==
  LET r == upload_document_file(doc_id, file)
  IN /\ r.nextOid <= MaxOid + 1
     /\ Commit("upload", doc_id, r)
     /\ uploaded' = IF r.resp.status = 200
                    THEN (OidOf[doc_id][1] :> file) @@ uploaded
                    ELSE uploaded
     /\ UNCHANGED <<db, uploads, deleted>>

\* upload until it answers or suspends in `await file.read()`.
UploadBegin(doc_id, file) ==
  LET early == upload_check(doc_id)
  IN /\ IF early # None
        THEN /\ last' = Response("upload", doc_id, early[1])
             /\ UNCHANGED uploads
        ELSE /\ Cardinality(uploads) < MaxInFlight
             /\ uploads' = uploads \cup {[doc_id |-> doc_id, file |-> file]}
             /\ UNCHANGED last
     /\ UNCHANGED <<db, docs, blobs, nextOid, deleted, uploaded>>

\* upload from the resumption to its response.
UploadResume(u) ==
  LET oid == OidOf[u.doc_id][1]
      r == upload_store(oid, u.file)
  IN /\ u \in uploads
     /\ nextOid <= MaxOid
     /\ Commit("upload", u.doc_id, r)
     /\ uploads' = uploads \ {u}
     /\ uploaded' = IF r.resp.status = 200 THEN (oid :> u.file) @@ uploaded ELSE uploaded
     /\ UNCHANGED <<db, deleted>>

Download(doc_id) ==
  /\ Commit("download", doc_id, download_document_file(doc_id))
  /\ UNCHANGED <<db, uploads, deleted, uploaded>>

Update(doc_id, payload) ==
  /\ Commit("update", doc_id, update_document(doc_id, payload))
  /\ UNCHANGED <<db, uploads, deleted, uploaded>>

Delete(doc_id) ==
  LET r == delete_document(doc_id)
  IN /\ Commit("delete", doc_id, r)
     /\ deleted' = IF r.resp.status = 200 /\ docs[OidOf[doc_id][1]].file_blob_id # None
                   THEN (OidOf[doc_id][1] :> docs[OidOf[doc_id][1]].file_blob_id[1]) @@ deleted
                   ELSE deleted
     /\ uploaded' = IF r.resp.status = 200
                    THEN Without(uploaded, OidOf[doc_id][1])
                    ELSE uploaded
     /\ UNCHANGED <<db, uploads>>

\* The two deletes in the other order: the document goes first, and the
\* process dies before the blob delete.
CrashInDelete_doc_first(doc_id) ==
  /\ db # None
  /\ OidOf[doc_id] # None
  /\ find_one(docs, OidOf[doc_id][1]) # None
  /\ docs[OidOf[doc_id][1]].file_blob_id # None
  /\ docs' = delete_one(docs, OidOf[doc_id][1])
  /\ last' = [op |-> "delete", doc_id |-> doc_id, status |-> 0, body |-> "crash"]
  /\ uploaded' = Without(uploaded, OidOf[doc_id][1])
  /\ UNCHANGED <<db, blobs, nextOid, uploads, deleted>>

\* The process dies in delete_document between its two deletes: after the
\* blob delete and before the document delete.
CrashInDelete(doc_id) ==
  /\ db # None
  /\ OidOf[doc_id] # None
  /\ find_one(docs, OidOf[doc_id][1]) # None
  /\ docs[OidOf[doc_id][1]].file_blob_id # None
  /\ blobs' = delete_blob(docs[OidOf[doc_id][1]])
  /\ last' = [op |-> "delete", doc_id |-> doc_id, status |-> 0, body |-> "crash"]
  /\ uploaded' = Without(uploaded, OidOf[doc_id][1])
  /\ UNCHANGED <<db, docs, nextOid, uploads, deleted>>

SeqNext ==
  \/ \E payload \in Payloads : Create(payload)
  \/ \E doc_id \in DocIdInputs, file \in Files : Upload(doc_id, file)
  \/ \E doc_id \in DocIdInputs : Download(doc_id)
  \/ \E doc_id \in DocIdInputs, payload \in Payloads : Update(doc_id, payload)
  \/ \E doc_id \in DocIdInputs : Delete(doc_id)

\* Completed requests, one after the other.
Spec == Init /\ [][SeqNext]_vars

CrashNext ==
  \/ SeqNext
  \/ \E doc_id \in DocIdInputs : CrashInDelete(doc_id)

\* Requests one after the other, where a delete may be cut short by a crash
\* of the process.
CrashSpec == Init /\ [][CrashNext]_vars

ConcNext ==
  \/ \E payload \in Payloads : Create(payload)
  \/ \E doc_id \in DocIdInputs, file \in Files : UploadBegin(doc_id, file)
  \/ \E u \in uploads : UploadResume(u)
  \/ \E doc_id \in DocIdInputs : Download(doc_id)
  \/ \E doc_id \in DocIdInputs, payload \in Payloads : Update(doc_id, payload)
  \/ \E doc_id \in DocIdInputs : Delete(doc_id)

\* Requests overlap where upload suspends in its await.
ConcSpec == Init /\ [][ConcNext]_vars

\* ------------------------------------------------------------ claims

IdRoutes == {"upload", "download", "update", "delete"}

\* The identifier of the last request, parsed.
LastOid == OidOf[last.doc_id][1]

Malformed == last.op \in IdRoutes /\ OidOf[last.doc_id] = None

\* A document whose back-reference names a blob that is not stored.
Dangling(oid) ==
  /\ oid \in DOMAIN docs
  /\ docs[oid].file_blob_id # None
  /\ docs[oid].file_blob_id[1] \notin DOMAIN blobs

\* C1 as claimed: on every id-taking route and in every state, the null
\* database handle included, a malformed identifier is answered 400.
C1_MalformedIdAlways400 == Malformed => last.status = 400

\* C1 amended: with the database handle set, a malformed identifier is
\* answered 400 on every id-taking route (never 404 or 500); with the handle
\* null every id-taking route answers 500, whatever the identifier.
C1_MalformedId400WhenConfigured ==
  /\ (db # None /\ Malformed) => last.status = 400
  /\ (db = None /\ last.op \in IdRoutes) => last.status = 500

C1_Witness ==
  /\ db # None
  /\ Malformed
  /\ last.op = "delete"
  /\ last.status = 400
  /\ docs # NoRecords

\* C2 as claimed: no two FileBlobs have the same doc_id.
C2_AtMostOneBlobPerDocument ==
  \A b1 \in DOMAIN blobs, b2 \in DOMAIN blobs :
    blobs[b1].doc_id = blobs[b2].doc_id => b1 = b2

\* C3: a document deleted with a file attached is gone for good, the blob it
\* referred to is gone from the blob collection, and every download of its
\* identifier is answered 404.
C3_DeleteRemovesDocumentAndBlob ==
  \A d \in DOMAIN deleted :
    /\ d \notin DOMAIN docs
    /\ deleted[d] \notin DOMAIN blobs
    /\ (last.op = "download" /\ OidOf[last.doc_id] = Some(d)) => last.status = 404

C3_Witness ==
  /\ last.op = "download"
  /\ OidOf[last.doc_id] # None
  /\ LastOid \in DOMAIN deleted
  /\ last.status = 404
  /\ docs # NoRecords

\* C4 as claimed: after a successful application/octet-stream upload the
\* document's text_preview is null, in the response and in the stored record.
C4_BinaryUploadLeavesNoPreview ==
  (/\ last.op = "upload"
   /\ last.status = 200
   /\ uploaded[LastOid].content_type = Some(OctetStream))
  => /\ last.body.text_preview = None
     /\ docs[LastOid].text_preview = None

\* C5 as claimed: a download of a document with a successful upload and no
\* delete since returns the bytes of the most recent upload with that upload's
\* content type.
C5_DownloadReturnsUploadAndItsType ==
  (/\ last.op = "download"
   /\ OidOf[last.doc_id] # None
   /\ LastOid \in DOMAIN uploaded)
  => /\ last.status = 200
     /\ last.body.content = uploaded[LastOid].content
     /\ Some(last.body.media_type) = uploaded[LastOid].content_type

\* C5 amended: such a download returns the bytes of the most recent upload,
\* with that upload's content type when it carried one and with
\* application/octet-stream when it carried none (or an empty one).
C5_DownloadReturnsUpload ==
  (/\ last.op = "download"
   /\ OidOf[last.doc_id] # None
   /\ LastOid \in DOMAIN uploaded)
  => /\ last.status = 200
     /\ last.body.content = uploaded[LastOid].content
     /\ last.body.media_type =
          (IF uploaded[LastOid].content_type \in {None, Some(<<>>)}
           THEN OctetStream
           ELSE uploaded[LastOid].content_type[1])

C5_Witness ==
  /\ last.op = "download"
  /\ OidOf[last.doc_id] # None
  /\ LastOid \in DOMAIN uploaded
  /\ last.status = 200
  /\ last.body.content = <<104, 105, 255, 195, 169>>
  /\ last.body.media_type = TextPlain
  /\ docs[LastOid].title = "Receipt"
  /\ Cardinality({b \in DOMAIN blobs : blobs[b].doc_id = LastOid}) = 2

\* C6: a successful update sets title, tags and notes to the request's values
\* (absent tags to the empty list), in the record and in the response, and
\* changes nothing else: not the document's file fields, not another
\* document, not the blob collection.
C6_UpdateOverwritesMetadataOnly ==
  [][last'.op = "update" =>
       \A payload \in Payloads :
         (last'.status = 200 /\ Update(last'.doc_id, payload)) =>
           LET oid == OidOf[last'.doc_id][1]
               tags == IF payload.tags = None THEN <<>> ELSE payload.tags[1]
           IN /\ DOMAIN docs' = DOMAIN docs
              /\ docs'[oid].title = payload.title
              /\ docs'[oid].tags = tags
              /\ docs'[oid].notes = payload.notes
              /\ last'.body.title = payload.title
              /\ last'.body.tags = tags
              /\ last'.body.notes = payload.notes
              /\ docs'[oid].mime_type = docs[oid].mime_type
              /\ docs'[oid].size = docs[oid].size
              /\ docs'[oid].text_preview = docs[oid].text_preview
              /\ docs'[oid].file_blob_id = docs[oid].file_blob_id
              /\ \A other \in DOMAIN docs \ {oid} : docs'[other] = docs[other]
              /\ blobs' = blobs]_vars

C6_Witness ==
  /\ last.op = "update"
  /\ last.status = 200
  /\ docs[LastOid].tags = <<>>
  /\ docs[LastOid].text_preview # None
  /\ docs[LastOid].file_blob_id # None
  /\ Cardinality(DOMAIN docs) = 2

\* C7: with the database configured, an update whose well-formed identifier
\* matches no document is answered 404 and leaves both collections as they
\* were.
C7_UpdateOfMissingIs404AndWritesNothing ==
  [][last'.op = "update" =>
       \A payload \in Payloads :
         (/\ db # None
          /\ OidOf[last'.doc_id] # None
          /\ OidOf[last'.doc_id][1] \notin DOMAIN docs
          /\ Update(last'.doc_id, payload))
         => /\ last'.status = 404
            /\ docs' = docs
            /\ blobs' = blobs]_vars

C7_Witness ==
  /\ last.op = "update"
  /\ last.status = 404
  /\ LastOid \in DOMAIN blobs
  /\ docs # NoRecords

\* C8 as claimed: an upload that resumes after its document was deleted
\* stores no blob and is answered 404.
C8_UploadStoresBlobOnlyForExistingDocument ==
  [][\A u \in uploads :
       (OidOf[u.doc_id][1] \notin DOMAIN docs /\ UploadResume(u))
       => /\ blobs' = blobs
          /\ last'.status = 404]_vars

\* A delete cut short by a crash is the last thing that happened.
CrashedInDelete == last.op = "delete" /\ last.status = 0

\* C9 as claimed: a crash between the two deletes leaves an orphaned blob
\* (one whose owning document is gone), not a document with a dangling
\* back-reference.
C9_CrashLeavesOrphanedBlob ==
  CrashedInDelete =>
    /\ \E b \in DOMAIN blobs : blobs[b].doc_id = LastOid /\ LastOid \notin DOMAIN docs
    /\ ~Dangling(LastOid)

\* C9 amended: a crash between the two deletes leaves the document in place
\* with a file_blob_id that refers to a blob no longer stored; the blob is
\* deleted first, so the crash orphans no blob of the document.
C9_CrashLeavesDanglingReference ==
  CrashedInDelete => Dangling(LastOid)

C9_Witness ==
  /\ CrashedInDelete
  /\ Dangling(LastOid)
  /\ docs[LastOid].size # None

\* C10: after completed requests served one after the other, every document
\* with a file_blob_id refers to a stored blob that names the document as its
\* owner, whose size is the length of its content, and whose size and
\* content type are the document's size and mime_type.
C10_BackReferenceIsConsistent ==
  \A d \in DOMAIN docs :
    docs[d].file_blob_id # None =>
      LET b == docs[d].file_blob_id[1]
      IN /\ b \in DOMAIN blobs
         /\ blobs[b].doc_id = d
         /\ blobs[b].size = Len(blobs[b].content)
         /\ docs[d].size = Some(blobs[b].size)
         /\ docs[d].mime_type = blobs[b].content_type

C10_Witness ==
  \E d \in DOMAIN docs :
    /\ docs[d].file_blob_id # None
    /\ docs[d].mime_type = Some(OctetStream)
    /\ docs[d].text_preview # None
    /\ Cardinality({b \in DOMAIN blobs : blobs[b].doc_id = d}) = 2

====
